---- MODULE Spec2Model ----
(***************************************************************************)
(* A model of the Lambda runtime loop of src/scripts/publish-layer.ts      *)
(* (lines 79-345): environment resolution, the handler loader, the four    *)
(* wire calls of the Runtime API client, the error formatter and the       *)
(* invocation loop with its handler-vs-timer race.                         *)
(*                                                                         *)
(* JavaScript values are records tagged by t:                              *)
(*   null, undefined, string, object (s = its JSON text,                   *)
(*   i = its inspected text), bigint (not JSON-serializable),              *)
(*   error (an instance of Error: name, message, stack),                   *)
(*   structured (an object with "type" and "cause" properties, each a      *)
(*   value).                                                               *)
(* A message that the code tests with startsWith is kept as the sequence   *)
(* <<prefix, rest>> of its two parts.                                      *)
(***************************************************************************)
EXTENDS Integers, Sequences, FiniteSets, TLC

VARIABLES
    pc,          \* position of the top-level control flow
    exitReason,  \* why the process ended ("none" while it runs)
    processEnv,  \* process.env: the three configuration variables and _X_AMZN_TRACE_ID
    file,        \* init()'s local `file` while init() runs: what the import gave
    lambda,      \* the handler resolved by init(): "unresolved" or "function"
    now,         \* Date.now()
    ticks,       \* how many times the clock has advanced
    nInv,        \* number of invocation/next polls issued so far
    cur,         \* the invocation most recently received by the loop
    wire,        \* the wire call in flight, or the last one completed
    reports,     \* per invocation: response / error calls issued and completed with 2xx
    initErrors,  \* number of init/error calls issued
    handlerCalls,\* number of times lambda(event) has been called
    bg,          \* handlers abandoned by a timed-out race that are still running
    timers       \* timers armed by setTimeout that have not fired yet

vars == <<pc, exitReason, processEnv, file, lambda, now, ticks, nInv, cur, wire,
          reports, initErrors, handlerCalls, bg, timers>>

-----------------------------------------------------------------------------
(* Bounds of the model                                                     *)

MaxInv == 2
MaxTicks == 2

(* Program constants                                                       *)

DefaultWindowMs == 60000
MinDurationMs == 1

(* The clock value at process start and the steps by which it advances.    *)

StartNow == 1000
Deltas == {1, DefaultWindowMs}

-----------------------------------------------------------------------------
(* JavaScript values                                                       *)

Null == [t |-> "null"]
Undefined == [t |-> "undefined"]
Str(s) == [t |-> "string", s |-> s]
Obj == [t |-> "object", s |-> "{\"a\":1}", i |-> "{ a: 1 }"]
BigInt == [t |-> "bigint", s |-> "10"]
NoStack == [has |-> FALSE, text |-> <<>>]
Stack(text) == [has |-> TRUE, text |-> text]
NativeError(name, message, stack) ==
    [t |-> "error", name |-> name, message |-> message, stack |-> stack]
Structured(type, cause) == [t |-> "structured", type |-> type, cause |-> cause]

Quote(s) == "\"" \o s \o "\""

\* JSON.stringify(v): the JSON text, undefined for undefined, a TypeError for
\* a BigInt.
JSONStringify(v) ==
    CASE v.t = "null" -> [threw |-> FALSE, v |-> Str("null")]
      [] v.t = "undefined" -> [threw |-> FALSE, v |-> Undefined]
      [] v.t = "string" -> [threw |-> FALSE, v |-> Str(Quote(v.s))]
      [] v.t = "object" -> [threw |-> FALSE, v |-> Str(v.s)]
      [] OTHER -> [threw |-> TRUE, v |-> Undefined]

\* Bun.inspect(v): a human-readable rendering; strings are quoted.
Inspect(v) ==
    CASE v.t = "null" -> "null"
      [] v.t = "undefined" -> "undefined"
      [] v.t = "string" -> Quote(v.s)
      [] v.t = "bigint" -> v.s \o "n"
      [] v.t = "object" -> v.i
      [] v.t = "error" -> v.name \o ": " \o v.message[1] \o v.message[2]
      [] OTHER -> "{ type: ..., cause: ... }"

-----------------------------------------------------------------------------
(* Error formatter                                                         *)

isSerializableError(error) ==
    \/ error.t = "error"
    \/ error.t = "structured"

\* error.stack?.split("\n"): the stack text is the sequence of its lines with
\* the "\n" separators between them; the split keeps the lines.
SplitLines(stack) ==
    IF stack.has
    THEN [has |-> TRUE,
          text |-> [k \in 1..((Len(stack.text) + 1) \div 2) |-> stack.text[2 * k - 1]]]
    ELSE NoStack

formatError(error) ==
    IF error.t = "error"
    THEN [errorType |-> Str(error.name),
          errorMessage |-> error.message[1] \o error.message[2],
          stackTrace |-> SplitLines(error.stack)]
    ELSE [errorType |-> error.type,
          errorMessage |-> Inspect(error.cause),
          stackTrace |-> NoStack]


-----------------------------------------------------------------------------
(* Process environment                                                     *)

Absent == <<>>
Present(v) == <<v>>
TraceVar == "_X_AMZN_TRACE_ID"
EnvNames == {"AWS_LAMBDA_RUNTIME_API", "_HANDLER", "LAMBDA_TASK_ROOT", TraceVar}

\* The _HANDLER values tried: the identifier as its "."-separated segments.
HandlerNames == {<<"main", "handler">>}

\* env(name): process.env[name] ?? fallback ?? null, called without fallback.
env(name) ==
    IF processEnv[name] = Absent
    THEN [found |-> FALSE, value |-> ""]
    ELSE [found |-> TRUE, value |-> processEnv[name][1]]

RECURSIVE JoinDots(_)
JoinDots(segs) ==
    IF Len(segs) = 0 THEN ""
    ELSE IF Len(segs) = 1 THEN segs[1]
    ELSE segs[1] \o "." \o JoinDots(Tail(segs))

\* handlerName.substring(0, handlerName.lastIndexOf("."))
FileNameOf(handlerName) == JoinDots(SubSeq(handlerName, 1, Len(handlerName) - 1))
\* handlerName.substring(handlerName.lastIndexOf(".") + 1)
ModuleNameOf(handlerName) == handlerName[Len(handlerName)]

\* Mutant: the trace id is never written to the slot.
setTraceIdNotWritten(traceId) == processEnv

setTraceId(traceId) == [processEnv EXCEPT ![TraceVar] = Present(traceId)]
\* Mutant: the slot is never cleared.
resetTraceIdNotCleared == processEnv

resetTraceId == [processEnv EXCEPT ![TraceVar] = Absent]

-----------------------------------------------------------------------------
(* Wire calls                                                              *)

NoInv == [n |-> 0]
NoCall == [op |-> "none"]
NoFile == [imported |-> FALSE]

RequestIdOf(n) == "req-" \o ToString(n)
TraceIdOf(n) == "Root=1-" \o ToString(n)

NoReports == [response |-> 0, error |-> 0, ok |-> 0]

\* fetchNextInvocation(): GET invocation/next
fetchNextInvocation ==
    [op |-> "next", url |-> <<"invocation", "next">>, status |-> "pending"]

\* sendInvocationResponse(requestId, body): POST invocation/<id>/response
sendInvocationResponse(requestId, body) ==
    [op |-> "response", url |-> <<"invocation", requestId, "response">>,
     status |-> "pending", body |-> body]

\* sendBaseError(url, error): POST the formatted error, its type in a header.
\* The body is JSON.stringify(formatted), kept as the envelope it encodes;
\* it is evaluated first and throws when the envelope cannot be encoded.
sendBaseError(op, url, error) ==
    LET formatted == formatError(error)
    IN IF JSONStringify(formatted.errorType).threw
       THEN [threw |-> TRUE]
       ELSE [threw |-> FALSE,
             call |-> [op |-> op, url |-> url, status |-> "pending",
                       errorTypeHeader |-> formatted.errorType.s,
                       body |-> formatted]]

sendInitError(error) == sendBaseError("initError", <<"init", "error">>, error)

sendInvocationError(requestId, error) ==
    sendBaseError("invocationError", <<"invocation", requestId, "error">>, error)

\* lambdaFetch's check of response.ok on the call in flight
Completed(call, ok) == [call EXCEPT !.status = IF ok THEN "ok" ELSE "failed"]

\* The poll returned 2xx: the call with the headers and the body of its
\* response, as receiveRequest() reads them.
Received(call, response) ==
    [op |-> call.op, url |-> call.url, status |-> "ok",
     requestId |-> response.requestId,
     traceId |-> response.traceId,
     deadline |-> response.deadline,
     rawBody |-> response.body]


-----------------------------------------------------------------------------
(* Inputs from the environment                                             *)

\* What `await import(filePath)` can do: resolve to a module whose default
\* export and export named <moduleName> are absent (undefined), null, a
\* function or some other value; or throw.
ExportKinds == {"undefined", "null", "function", "other"}

\* What the import throws when there is no file at filePath.
ModuleNotFound ==
    NativeError("ResolveMessage", <<"Cannot find module", " '/var/task/main'">>, NoStack)

ImportResults ==
    [imported : {TRUE}, threw : {FALSE}, default : ExportKinds, named : ExportKinds]
    \cup
    [imported : {TRUE}, threw : {TRUE},
     cause : { \* the file does not exist
               ModuleNotFound,
               \* the file exists and fails while it loads
               NativeError("SyntaxError", <<"Unexpected token", " '}'">>, NoStack),
               \* the file exists and throws a value that is no Error
               Str("Cannot find module config") }]

\* The deadline header of a poll response: absent, or its text, which is
\* either a run of digits (n is its value) or something parseInt rejects.
Digits(n) == [digits |-> TRUE, n |-> n]
Garbage == [digits |-> FALSE, n |-> 0]

DeadlineHeaders ==
    {Absent, Present(Digits(0)), Present(Garbage),
     Present(Digits(now - 5)), Present(Digits(now + 2))}

\* The raw bodies of a poll response.
RawBodies == {"{\"a\":1}", "{oops"}

\* Mutant: a body that is no JSON is taken as an event all the same.
ParseJSONLenient(raw) == [threw |-> FALSE, v |-> Obj]

\* response.json(): the parsed body, or a SyntaxError.
ParseJSON(raw) ==
    CASE raw = "{\"a\":1}" -> [threw |-> FALSE, v |-> Obj]
      [] OTHER -> [threw |-> TRUE, v |-> Undefined]

\* parseInt(text): the number, or NaN
parseInt(text) == IF text.digits THEN [nan |-> FALSE, n |-> text.n] ELSE [nan |-> TRUE, n |-> 0]

\* parseInt(headers.get("Lambda-Runtime-Deadline-Ms") ?? "0") || null
ParseDeadline(header) ==
    LET p == parseInt(IF header = Absent THEN Digits(0) ELSE header[1])
    IN IF p.nan \/ p.n = 0 THEN [null |-> TRUE, ms |-> 0] ELSE [null |-> FALSE, ms |-> p.n]

\* The poll responses: status, the two id headers, the deadline header, the body.
PollResponses(n) ==
    [ok : BOOLEAN,
     requestId : {Absent, Present(RequestIdOf(n))},
     traceId : {Absent, Present(TraceIdOf(n))},
     deadline : DeadlineHeaders,
     body : RawBodies]

\* Values a handler returns or fulfils with, and values it throws or rejects with.
ReturnValues == {Null, Undefined, Str("hello"), Obj, BigInt}

ThrownValues ==
    {NativeError("Error", <<"boom", "">>,
                 Stack(<<"Error: boom", "\n", "    at handler (/var/task/main.ts:3:9)">>)),
     Structured(Str("ValidationError"), Str("bad input")),
     Structured(BigInt, Str("bad input")),
     Str("oops"),
     Obj,
     Null}

\* What lambda(event) does when it is called: return a value that is no
\* promise, throw, or return a promise that is still pending.
HandlerStarts ==
    [how : {"syncReturn"}, v : ReturnValues]
    \cup [how : {"syncThrow"}, v : ThrownValues]
    \cup {[how |-> "pending", v |-> Undefined]}

Max(a, b) == IF a >= b THEN a ELSE b

-----------------------------------------------------------------------------
(* Start-up                                                                *)

Init ==
    /\ pc = "start"
    /\ exitReason = "none"
    /\ \E api \in {Absent, Present("127.0.0.1:9001")},
          handlerName \in {Absent} \cup {Present(h) : h \in HandlerNames},
          taskRoot \in {Absent, Present("/var/task")},
          inherited \in {Absent, Present("Root=inherited")} :
         processEnv = [name \in EnvNames |->
                         CASE name = "AWS_LAMBDA_RUNTIME_API" -> api
                           [] name = "_HANDLER" -> handlerName
                           [] name = "LAMBDA_TASK_ROOT" -> taskRoot
                           [] OTHER -> inherited]
    /\ file = NoFile
    /\ lambda = "unresolved"
    /\ now = StartNow
    /\ ticks = 0
    /\ nInv = 0
    /\ cur = NoInv
    /\ wire = NoCall
    /\ reports = [n \in 1..MaxInv |-> NoReports]
    /\ initErrors = 0
    /\ handlerCalls = 0
    /\ bg = {}
    /\ timers = {}

\* exit(...cause): process.exit(1). The process is gone: so are its timers
\* and the handlers still running in it.
Exit(reason) ==
    /\ pc' = "exited"
    /\ exitReason' = reason
    /\ bg' = {}
    /\ timers' = {}

\* const runtimeUrl = new URL(`http://${env("AWS_LAMBDA_RUNTIME_API")}/...`)
ResolveRuntimeUrl ==
    /\ pc = "start"
    /\ IF env("AWS_LAMBDA_RUNTIME_API").found
       THEN /\ pc' = "init"
            /\ UNCHANGED <<exitReason, bg, timers>>
       ELSE Exit("env")
    /\ UNCHANGED <<processEnv, file, lambda, now, ticks, nInv, cur, wire, reports,
                   initErrors, handlerCalls>>

\* throwError(error) without a request id: console.error, then sendInitError.
\* The exit() that follows the call is InitErrorCompletes.
throwError(error) ==
    /\ IF sendInitError(error).threw
       THEN /\ Exit("uncaught")
            /\ UNCHANGED <<wire, initErrors>>
       ELSE /\ wire' = sendInitError(error).call
            /\ initErrors' = initErrors + 1
            /\ pc' = "initErrorWait"
            /\ UNCHANGED <<exitReason, bg, timers>>
    /\ UNCHANGED lambda

\* Mutant: the export named <moduleName> is preferred to the default export.
ResolveExportPreferNamed(module) ==
    IF module.named \in {"undefined", "null"}
    THEN [from |-> "default", kind |-> module.default]
    ELSE [from |-> "named", kind |-> module.named]

\* file["default"] ?? file[moduleName]: the export the value comes from and
\* what kind of value it is.
ResolveExport(module) ==
    IF module.default \in {"undefined", "null"}
    THEN [from |-> "named", kind |-> module.named]
    ELSE [from |-> "default", kind |-> module.default]

\* init()'s locals once the import has resolved: file and handler.
Loaded(module, handler) ==
    [imported |-> TRUE, threw |-> FALSE, default |-> module.default,
     named |-> module.named, handler |-> handler]

\* init(): the handler loader
InitHandler ==
    /\ pc = "init"
    /\ IF ~env("_HANDLER").found \/ ~env("LAMBDA_TASK_ROOT").found
       THEN /\ Exit("env")
            /\ UNCHANGED <<wire, initErrors, file, lambda>>
       ELSE LET handlerName == env("_HANDLER").value
                fileName == FileNameOf(handlerName)
                moduleName == ModuleNameOf(handlerName)
            IN \E imported \in ImportResults :
                 IF imported.threw
                 THEN /\ file' = imported
                      /\ IF /\ imported.cause.t = "error"
                            /\ imported.cause.message[1] = "Cannot find module"
                         THEN throwError(Structured(Str("FileDoesNotExist"),
                                  Str("Did not find a file named '" \o fileName \o "'")))
                         ELSE throwError(Structured(Str("InitError"), imported.cause))
                 ELSE LET handler == ResolveExport(imported)
                      IN /\ file' = Loaded(imported, handler)
                         /\ IF handler.kind # "function"
                            THEN throwError(Structured(
                                  IF handler.kind = "undefined"
                                  THEN Str("MethodDoesNotExist")
                                  ELSE Str("MethodIsNotAFunction"),
                                  Str(fileName \o " does not an function export '"
                                      \o moduleName \o "' (handler is "
                                      \o handler.kind \o ")")))
                            ELSE /\ pc' = "initReturned"
                                 /\ UNCHANGED <<exitReason, bg, timers, wire, initErrors,
                                                lambda>>
    /\ UNCHANGED <<processEnv, now, ticks, nInv, cur, reports, handlerCalls>>

\* const lambda = await init(): init() has returned its handler.
InitReturns ==
    /\ pc = "initReturned"
    /\ lambda' = "function"
    /\ file' = NoFile
    /\ pc' = "loop"
    /\ UNCHANGED <<exitReason, processEnv, now, ticks, nInv, cur, wire, reports,
                   initErrors, handlerCalls, bg, timers>>

\* Mutant: throwError does not exit after a delivered report; init() returns
\* and the loop starts.
InitErrorCompletesNoExit ==
    /\ pc = "initErrorWait"
    /\ \E ok \in BOOLEAN :
         /\ wire' = Completed(wire, ok)
         /\ IF ok
            THEN /\ pc' = "loop"
                 /\ UNCHANGED <<exitReason, bg, timers>>
            ELSE Exit("wire")
    /\ UNCHANGED <<processEnv, file, lambda, now, ticks, nInv, cur, reports,
                   initErrors, handlerCalls>>

\* The init/error call returns: lambdaFetch exits on a non-2xx status, and
\* throwError exits after the call in any case.
InitErrorCompletes ==
    /\ pc = "initErrorWait"
    /\ \E ok \in BOOLEAN :
         /\ wire' = Completed(wire, ok)
         /\ Exit(IF ok THEN "initError" ELSE "wire")
    /\ UNCHANGED <<processEnv, file, lambda, now, ticks, nInv, cur, reports,
                   initErrors, handlerCalls>>


-----------------------------------------------------------------------------
(* The invocation loop                                                     *)

\* Top of the while loop: receiveRequest() issues GET invocation/next.
FetchNext ==
    /\ pc = "loop"
    /\ nInv < MaxInv
    /\ nInv' = nInv + 1
    /\ wire' = fetchNextInvocation
    /\ pc' = "nextWait"
    /\ UNCHANGED <<exitReason, processEnv, file, lambda, now, ticks, cur, reports,
                   initErrors, handlerCalls, bg, timers>>

\* receiveRequest(): the poll returns; status, headers and body are checked.
ReceiveRequest ==
    /\ pc = "nextWait"
    /\ \E response \in PollResponses(nInv) :
         /\ wire' = IF response.ok
                    THEN Received(wire, response)
                    ELSE Completed(wire, FALSE)
         /\ IF ~response.ok
            THEN /\ Exit("wire")
                 /\ cur' = cur
            ELSE IF \/ response.requestId = Absent
                    \/ response.traceId = Absent
                    \/ ParseJSON(response.body).threw
            THEN /\ Exit("protocol")
                 /\ cur' = cur
            ELSE /\ cur' = [n |-> nInv,
                            requestId |-> response.requestId[1],
                            traceId |-> response.traceId[1],
                            deadlineMs |-> ParseDeadline(response.deadline),
                            event |-> ParseJSON(response.body).v,
                            durationMs |-> 0,
                            armedAt |-> 0,
                            fireAt |-> 0,
                            how |-> "none",
                            v |-> Undefined]
                 /\ pc' = "received"
                 /\ UNCHANGED <<exitReason, bg, timers>>
    /\ UNCHANGED <<processEnv, file, lambda, now, ticks, nInv, reports, initErrors,
                   handlerCalls>>

\* Mutant: the remaining time is not floored at 1 ms.
DurationMsNoFloor(deadlineMs, t1, t2) ==
    (IF deadlineMs.null THEN t1 + DefaultWindowMs ELSE deadlineMs.ms) - t2

\* Math.max(1, (deadlineMs === null ? Date.now() + 60_000 : deadlineMs) - Date.now())
\* t1 and t2 are what the first and the second Date.now() return.
DurationMs(deadlineMs, t1, t2) ==
    Max(MinDurationMs,
        (IF deadlineMs.null THEN t1 + DefaultWindowMs ELSE deadlineMs.ms) - t2)

\* Mutant: every caught value is wrapped as an UnknownError.
CaughtAlwaysUnknown(cause) == Structured(Str("UnknownError"), cause)

\* The value the catch clause reports: the caught value when it is
\* serializable, else { type: "UnknownError", cause }.
Caught(cause) ==
    IF isSerializableError(cause) THEN cause ELSE Structured(Str("UnknownError"), cause)

\* The TypeError of lambda(event).then when lambda(event) is no promise.
ThenTypeError(v) ==
    NativeError("TypeError",
                IF v.t \in {"null", "undefined"}
                THEN <<v.t, " is not an object (evaluating 'lambda(event).then')">>
                ELSE <<"lambda(event).then", " is not a function">>,
                Stack(<<"TypeError", "\n", "    at /opt/runtime.ts:306:20">>))

\* The catch clause, entered with process.env = traced:
\* sendInvocationError(requestId, se) is issued and the finally clause runs
\* when the call has returned (CatchErrorCompletes). When the call throws
\* instead, the finally clause runs at once and nothing catches the exception.
CatchClause(c, cause, traced) ==
    LET sent == sendInvocationError(c.requestId, Caught(cause))
    IN IF sent.threw
       THEN /\ processEnv' = resetTraceId
            /\ Exit("uncaught")
            /\ UNCHANGED <<wire, reports>>
       ELSE /\ wire' = sent.call
            /\ reports' = [reports EXCEPT ![c.n].error = @ + 1]
            /\ processEnv' = traced
            /\ pc' = "catchErrWait"
            /\ UNCHANGED <<exitReason, bg, timers>>

\* durationMs, setTraceId(traceId), and the call lambda(event) of the race.
StartExecution ==
    /\ pc = "received"
    /\ \E skew \in {0, 1}, start \in HandlerStarts :
         /\ skew = 1 => ticks < MaxTicks
         /\ now' = now + skew
         /\ ticks' = ticks + skew
         /\ handlerCalls' = handlerCalls + 1
         /\ LET durationMs == DurationMs(cur.deadlineMs, now, now + skew)
                c == [cur EXCEPT !.durationMs = durationMs,
                                 !.how = start.how,
                                 !.v = start.v]
            IN CASE start.how = "syncReturn" ->
                      /\ cur' = c
                      /\ CatchClause(c, ThenTypeError(start.v), setTraceId(cur.traceId))
                 [] start.how = "syncThrow" ->
                      /\ cur' = c
                      /\ CatchClause(c, start.v, setTraceId(cur.traceId))
                 [] OTHER ->
                      /\ processEnv' = setTraceId(cur.traceId)
                      /\ cur' = [c EXCEPT !.armedAt = now + skew,
                                           !.fireAt = now + skew + durationMs]
                      /\ timers' = timers \cup
                             {[n |-> cur.n, fireAt |-> now + skew + durationMs]}
                      /\ pc' = "race"
                      /\ UNCHANGED <<exitReason, bg, wire, reports>>
    /\ UNCHANGED <<file, lambda, nInv, initErrors>>

\* Mutant: every value is JSON-encoded.
ResponseBodyAlwaysJson(data) == JSONStringify(data)

\* data === null ? null : typeof data === "string" ? data : JSON.stringify(data)
ResponseBody(data) ==
    IF data.t = "null" THEN [threw |-> FALSE, v |-> Null]
    ELSE IF data.t = "string" THEN [threw |-> FALSE, v |-> data]
    ELSE JSONStringify(data)

\* The handler's promise fulfils first: the race resolves with its value, the
\* finally clause clears the trace id and the response is sent. An exception
\* of JSON.stringify is caught by nothing and ends the process.
HandlerFulfils ==
    /\ pc = "race"
    /\ \E data \in ReturnValues :
         /\ cur' = [cur EXCEPT !.how = "fulfilled", !.v = data]
         /\ processEnv' = resetTraceId
         /\ IF ResponseBody(data).threw
            THEN /\ Exit("uncaught")
                 /\ UNCHANGED <<wire, reports>>
            ELSE /\ wire' = sendInvocationResponse(cur.requestId, ResponseBody(data).v)
                 /\ reports' = [reports EXCEPT ![cur.n].response = @ + 1]
                 /\ pc' = "respWait"
                 /\ UNCHANGED <<exitReason, bg, timers>>
    /\ UNCHANGED <<file, lambda, now, ticks, nInv, initErrors, handlerCalls>>

\* The handler's promise rejects first: the race rejects and the catch clause runs.
HandlerRejects ==
    /\ pc = "race"
    /\ \E cause \in ThrownValues :
         /\ cur' = [cur EXCEPT !.how = "rejected", !.v = cause]
         /\ CatchClause(cur, cause, processEnv)
    /\ UNCHANGED <<file, lambda, now, ticks, nInv, initErrors, handlerCalls>>

\* Mutant: the message gives the duration in seconds.
TimeoutCauseSeconds(durationMs) ==
    Str("Function timed out after " \o ToString(durationMs \div 1000) \o "ms")

\* `Function timed out after ${durationMs}ms`
TimeoutCause(durationMs) ==
    Str("Function timed out after " \o ToString(durationMs) \o "ms")

\* The timer fires first: the race resolves with { timeout: true }, the finally
\* clause clears the trace id and the timeout is reported. The handler keeps
\* running.
TimerElapses ==
    /\ pc = "race"
    /\ now >= cur.fireAt
    /\ cur' = [cur EXCEPT !.how = "timeout"]
    /\ timers' = timers \ {[n |-> cur.n, fireAt |-> cur.fireAt]}
    /\ bg' = bg \cup {cur.n}
    /\ processEnv' = resetTraceId
    /\ wire' = sendInvocationError(cur.requestId,
                   Structured(Str("TimeoutError"), TimeoutCause(cur.durationMs))).call
    /\ reports' = [reports EXCEPT ![cur.n].error = @ + 1]
    /\ pc' = "timeoutErrWait"
    /\ UNCHANGED <<exitReason, file, lambda, now, ticks, nInv, initErrors, handlerCalls>>

\* Mutant: the status of the response call is not checked.
ResponseCompletesUnchecked ==
    /\ pc = "respWait"
    /\ \E ok \in BOOLEAN :
         /\ wire' = Completed(wire, ok)
         /\ reports' = [reports EXCEPT ![cur.n].ok = @ + (IF ok THEN 1 ELSE 0)]
         /\ pc' = "loop"
    /\ UNCHANGED <<exitReason, bg, timers, processEnv, file, lambda, now, ticks, nInv,
                   cur, initErrors, handlerCalls>>

\* sendInvocationResponse returns: on 2xx the loop body ends.
ResponseCompletes ==
    /\ pc = "respWait"
    /\ \E ok \in BOOLEAN :
         /\ wire' = Completed(wire, ok)
         /\ IF ok
            THEN /\ reports' = [reports EXCEPT ![cur.n].ok = @ + 1]
                 /\ pc' = "loop"
                 /\ UNCHANGED <<exitReason, bg, timers>>
            ELSE /\ Exit("wire")
                 /\ UNCHANGED reports
    /\ UNCHANGED <<processEnv, file, lambda, now, ticks, nInv, cur, initErrors, handlerCalls>>

\* Mutant: a failed error report is ignored and the loop goes on.
CatchErrorCompletesUnchecked ==
    /\ pc = "catchErrWait"
    /\ \E ok \in BOOLEAN :
         /\ wire' = Completed(wire, ok)
         /\ reports' = [reports EXCEPT ![cur.n].ok = @ + (IF ok THEN 1 ELSE 0)]
         /\ processEnv' = resetTraceId
         /\ pc' = "loop"
    /\ UNCHANGED <<exitReason, bg, timers, file, lambda, now, ticks, nInv, cur,
                   initErrors, handlerCalls>>

\* sendInvocationError of the catch clause returns: on 2xx `continue` runs the
\* finally clause, which clears the trace id.
CatchErrorCompletes ==
    /\ pc = "catchErrWait"
    /\ \E ok \in BOOLEAN :
         /\ wire' = Completed(wire, ok)
         /\ IF ok
            THEN /\ reports' = [reports EXCEPT ![cur.n].ok = @ + 1]
                 /\ processEnv' = resetTraceId
                 /\ pc' = "loop"
                 /\ UNCHANGED <<exitReason, bg, timers>>
            ELSE /\ Exit("wire")
                 /\ UNCHANGED <<reports, processEnv>>
    /\ UNCHANGED <<file, lambda, now, ticks, nInv, cur, initErrors, handlerCalls>>

\* sendInvocationError of the timeout branch returns: on 2xx `continue`.
TimeoutErrorCompletes ==
    /\ pc = "timeoutErrWait"
    /\ \E ok \in BOOLEAN :
         /\ wire' = Completed(wire, ok)
         /\ IF ok
            THEN /\ reports' = [reports EXCEPT ![cur.n].ok = @ + 1]
                 /\ pc' = "loop"
                 /\ UNCHANGED <<exitReason, bg, timers>>
            ELSE /\ Exit("wire")
                 /\ UNCHANGED reports
    /\ UNCHANGED <<processEnv, file, lambda, now, ticks, nInv, cur, initErrors, handlerCalls>>

-----------------------------------------------------------------------------
(* What goes on beside the loop                                            *)

\* Mutant: the rejection of an abandoned handler is handled by nothing and
\* ends the process.
BackgroundHandlerSettlesUnhandled ==
    /\ pc # "exited"
    /\ \E n \in bg : Exit("uncaught")
    /\ UNCHANGED <<processEnv, file, lambda, now, ticks, nInv, cur, wire,
                   reports, initErrors, handlerCalls>>

\* A handler abandoned by a timed-out race settles (fulfils or rejects):
\* nothing reads its result.
BackgroundHandlerSettles ==
    /\ pc # "exited"
    /\ \E n \in bg : bg' = bg \ {n}
    /\ UNCHANGED <<pc, exitReason, processEnv, file, lambda, now, ticks, nInv, cur, wire,
                   reports, initErrors, handlerCalls, timers>>

\* The timer of a race the handler has won fires: the race is settled already.
StaleTimerFires ==
    /\ pc # "exited"
    /\ \E timer \in timers :
         /\ pc = "race" => timer.n # cur.n
         /\ now >= timer.fireAt
         /\ timers' = timers \ {timer}
    /\ UNCHANGED <<pc, exitReason, processEnv, file, lambda, now, ticks, nInv, cur, wire,
                   reports, initErrors, handlerCalls, bg>>

\* Time passes.
Tick ==
    /\ pc # "exited"
    /\ ticks < MaxTicks
    /\ \E delta \in Deltas : now' = now + delta
    /\ ticks' = ticks + 1
    /\ UNCHANGED <<pc, exitReason, processEnv, file, lambda, nInv, cur, wire, reports,
                   initErrors, handlerCalls, bg, timers>>

Next ==
    \/ ResolveRuntimeUrl
    \/ InitHandler
    \/ InitReturns
    \/ InitErrorCompletes
    \/ FetchNext
    \/ ReceiveRequest
    \/ StartExecution
    \/ HandlerFulfils
    \/ HandlerRejects
    \/ TimerElapses
    \/ ResponseCompletes
    \/ CatchErrorCompletes
    \/ TimeoutErrorCompletes
    \/ BackgroundHandlerSettles
    \/ StaleTimerFires
    \/ Tick

Spec == Init /\ [][Next]_vars

\* A timer that is due fires: the loop is suspended in an await, so the event
\* loop is free to run the callback.
FairSpec == Spec /\ WF_vars(TimerElapses)


-----------------------------------------------------------------------------
(* Properties                                                              *)

Reported(n) == reports[n].response + reports[n].error
TraceSlot == processEnv[TraceVar]
ErrorUrl(requestId) == <<"invocation", requestId, "error">>

\* C1: while an invocation/next poll is pending, every invocation received
\* before it has had its response or error call completed with a 2xx status;
\* at no time is more than one polled invocation without a completed report.
C1_SequentialOrdering ==
    /\ pc = "nextWait" => \A n \in 1..(nInv - 1) : reports[n].ok = 1
    /\ Cardinality({n \in 1..nInv : reports[n].ok = 0}) <= 1

C1_Witness ==
    /\ pc = "nextWait"
    /\ nInv = 2
    /\ reports[1].ok = 1

\* C2: an invocation never gets two report calls, and from the moment its
\* race is decided it has exactly one: a response when the handler
\* fulfilled first, an invocation error when it threw first or the timer
\* elapsed first.
C2_ExactlyOneReport ==
    /\ \A n \in 1..MaxInv : Reported(n) <= 1
    /\ (cur.n >= 1 /\ cur.how = "fulfilled") =>
          reports[cur.n].response = 1 /\ reports[cur.n].error = 0
    /\ (cur.n >= 1 /\ cur.how \in {"rejected", "syncThrow", "timeout"}) =>
          reports[cur.n].error = 1 /\ reports[cur.n].response = 0

\* C3: a handler that throws, or whose promise rejects, before the timer
\* fires gets an invocation-error call for the current request id; when that
\* call has returned 2xx the loop is back at its top and polls; the process
\* ends only through a failed wire call or a later poll, never through the throw.
C3_HandlerThrowReported ==
    (cur.n >= 1 /\ cur.how \in {"rejected", "syncThrow"}) =>
        /\ reports[cur.n].error = 1
        /\ pc \in {"catchErrWait", "loop", "nextWait", "exited"}
        /\ pc = "catchErrWait" =>
             /\ wire.op = "invocationError"
             /\ wire.url = ErrorUrl(cur.requestId)
             /\ wire.status = "pending"
        /\ pc = "loop" => wire.op = "invocationError" /\ wire.status = "ok"
        /\ pc = "exited" =>
             /\ exitReason \in {"wire", "protocol"}
             /\ wire.op = "invocationError" => wire.status = "failed"
        /\ reports[cur.n].ok = 1 =>
             pc \in {"loop", "nextWait"} \/ (pc = "exited" /\ wire.op = "next")

\* C4: once the handler is loaded, the process ends only on a poll response
\* without request id or trace id, a malformed event body, or a wire call
\* that did not return 2xx.
C4_FatalOnlyOnProtocolOrWire ==
    (pc = "exited" /\ lambda = "function") => exitReason \in {"protocol", "wire"}

\* C5: when the timer wins the race the timeout is reported for the current
\* request id with type TimeoutError and a message that embeds the duration
\* the timer was armed with, not before the timer is due; when that call has
\* returned 2xx the loop is back at its top and polls, whatever the handler
\* does; and a race whose timer is due is eventually settled.
C5_TimeoutReported ==
    /\ []((cur.n >= 1 /\ cur.how = "timeout") =>
            /\ now >= cur.fireAt
            /\ cur.fireAt - cur.armedAt = cur.durationMs
            /\ reports[cur.n].error = 1
            /\ reports[cur.n].response = 0
            /\ wire.op = "invocationError" =>
                 /\ wire.url = ErrorUrl(cur.requestId)
                 /\ wire.errorTypeHeader = "TimeoutError"
                 /\ wire.body.errorType = Str("TimeoutError")
                 /\ wire.body.errorMessage =
                      Quote("Function timed out after "
                            \o ToString(cur.fireAt - cur.armedAt) \o "ms")
            /\ pc = "timeoutErrWait" => wire.op = "invocationError"
            /\ reports[cur.n].ok = 1 =>
                 pc \in {"loop", "nextWait"} \/ (pc = "exited" /\ wire.op = "next"))
    /\ ((pc = "race" /\ now >= cur.fireAt) ~> (pc # "race"))

C5_Witness ==
    /\ pc = "nextWait"
    /\ nInv = 2
    /\ cur.how = "timeout"
    /\ cur.n \in bg

\* C6: while the race of an invocation is undecided, the trace slot holds
\* the trace id the poll response of that invocation carried.
C6_TraceDuringExecution ==
    pc = "race" =>
        /\ cur.traceId = TraceIdOf(cur.n)
        /\ TraceSlot = Present(TraceIdOf(cur.n))

C6_Witness ==
    /\ pc = "race"
    /\ cur.n = 2
    /\ TraceSlot = Present(TraceIdOf(2))

\* C7: once an invocation has been received, the trace slot is absent
\* whenever the loop is at its top or a poll is pending.
C7_TraceAbsentWhilePolling ==
    (cur.n >= 1 /\ pc \in {"loop", "nextWait"}) => TraceSlot = Absent

C7_Witness ==
    /\ pc = "nextWait"
    /\ cur.n = 1
    /\ cur.how = "rejected"
    /\ TraceSlot = Absent

\* C8: the body of a response call is null when the handler fulfilled with
\* null, the value itself when it fulfilled with a string, and the JSON text
\* of the value otherwise.
C8_ResponseBodyRule ==
    wire.op = "response" =>
        /\ cur.how = "fulfilled"
        /\ wire.url[2] = cur.requestId
        /\ cur.v.t = "null" => wire.body = Null
        /\ cur.v.t = "string" => wire.body = Str(cur.v.s)
        /\ cur.v.t \notin {"null", "string"} => wire.body = JSONStringify(cur.v).v

C8_Witness ==
    /\ wire.op = "response"
    /\ cur.v = Str("hello")
    /\ wire.body = Str("hello")

\* C9: a handler that returns a value that is no promise is answered with a
\* response call, not with an invocation error.
C9_SyncReturnIsSuccess ==
    (cur.n >= 1 /\ cur.how = "syncReturn") => reports[cur.n].error = 0

\* C10: when the import throws or the selected export is no function, there
\* is exactly one init/error call, the process ends when it returns, and
\* there is no poll and no handler call; a missing file is reported with
\* type FileDoesNotExist.
C10_LoaderFailureReported ==
    /\ (pc \notin {"start", "init"} /\ exitReason # "env") =>
          (lambda = "function") # file.imported
    /\ (file.imported /\ (file.threw \/ file.handler.kind # "function")) =>
          /\ initErrors = 1
          /\ wire.op = "initError"
          /\ wire.url = <<"init", "error">>
          /\ nInv = 0
          /\ handlerCalls = 0
          /\ pc \in {"initErrorWait", "exited"}
          /\ pc = "initErrorWait" => wire.status = "pending"
          /\ pc = "exited" => wire.status # "pending" /\ exitReason \in {"initError", "wire"}
          /\ (file.threw /\ file.cause = ModuleNotFound) =>
                /\ wire.errorTypeHeader = "FileDoesNotExist"
                /\ wire.body.errorType = Str("FileDoesNotExist")
    /\ ~file.imported => initErrors = 0

C10_Witness ==
    /\ pc = "exited"
    /\ exitReason = "initError"
    /\ file.imported
    /\ file.threw
    /\ file.cause = ModuleNotFound
    /\ wire.errorTypeHeader = "FileDoesNotExist"

\* C11: a process that ends before a handler is loaded, with the Runtime API
\* endpoint known, has reported the failure with an init/error call.
C11_StartupFailureReported ==
    (/\ pc = "exited"
     /\ lambda = "unresolved"
     /\ env("AWS_LAMBDA_RUNTIME_API").found) =>
        /\ initErrors = 1
        /\ wire.op = "initError"

\* C12: a wire call that did not return 2xx ends the process, and once a
\* call has failed no other wire call is issued, no report is counted and
\* the handler is not called.
C12_WireFailureIsFatal ==
    /\ [](wire.op # "none" /\ wire.status = "failed" =>
            pc = "exited" /\ exitReason = "wire")
    /\ [][wire.op # "none" /\ wire.status = "failed" =>
            /\ wire' = wire
            /\ nInv' = nInv
            /\ reports' = reports
            /\ initErrors' = initErrors
            /\ handlerCalls' = handlerCalls]_vars

C12_Witness ==
    /\ wire.op = "invocationError"
    /\ wire.status = "failed"
    /\ cur.n = 1
    /\ cur.how = "rejected"
    /\ nInv < MaxInv

\* C13: a poll response without request id or trace id, or with a body that
\* is no JSON, ends the process at once: the handler has been called for the
\* earlier invocations only, the trace slot does not hold the response's
\* trace id, and no response or error call is made for the invocation, also
\* when the response carried its request id.
C13_ProtocolViolationIsFatal ==
    /\ (/\ wire.op = "next"
        /\ wire.status = "ok"
        /\ \/ wire.requestId = Absent
           \/ wire.traceId = Absent
           \/ wire.rawBody = "{oops") =>
          /\ pc = "exited"
          /\ exitReason = "protocol"
    /\ exitReason = "protocol" =>
          /\ pc = "exited"
          /\ wire.op = "next"
          /\ wire.status = "ok"
          /\ cur.n = nInv - 1
          /\ handlerCalls = nInv - 1
          /\ Reported(nInv) = 0
          /\ TraceSlot # Present(TraceIdOf(nInv))
          /\ nInv > 1 => TraceSlot = Absent

C13_Witness ==
    /\ exitReason = "protocol"
    /\ nInv = 2
    /\ wire.requestId = Present(RequestIdOf(2))
    /\ wire.traceId = Present(TraceIdOf(2))
    /\ wire.rawBody = "{oops"

\* C14 (as claimed): the timer of a race is armed with max(1, deadline - now)
\* for every deadline header that carries a number, 0 included; the 60000 ms
\* window is not used for such a header; the budget is at least 1 ms.
C14_BudgetFromSuppliedDeadline ==
    pc = "race" =>
        /\ cur.durationMs >= MinDurationMs
        /\ (wire.deadline # Absent /\ wire.deadline[1].digits) =>
              cur.durationMs = Max(MinDurationMs, wire.deadline[1].n - cur.armedAt)
        /\ (wire.deadline # Absent /\ wire.deadline[1].digits) => ~cur.deadlineMs.null

\* C14 (amended): the timer is armed with max(1, deadline - now) when the
\* deadline header parses to a number other than 0; when the header is
\* absent, is 0 or does not parse, the budget is the 60000 ms window less
\* the time between the two clock reads; it is at least 1 ms, and the timer
\* is due that long after it was armed.
C14_BudgetFromParsedDeadline ==
    pc = "race" =>
        LET header == wire.deadline
            parsed == header # Absent /\ header[1].digits /\ header[1].n # 0
        IN /\ cur.durationMs >= MinDurationMs
           /\ parsed => cur.durationMs = Max(MinDurationMs, header[1].n - cur.armedAt)
           /\ ~parsed => cur.durationMs \in {DefaultWindowMs - 1, DefaultWindowMs}
           /\ cur.fireAt = cur.armedAt + cur.durationMs

C14_Witness ==
    /\ pc = "race"
    /\ wire.deadline = Present(Digits(0))
    /\ cur.durationMs = DefaultWindowMs
    /\ cur.fireAt = cur.armedAt + DefaultWindowMs

\* C15: the envelope of the invocation-error call for a value the handler
\* threw or rejected with: for an Error, its name, its message and the lines
\* of its stack; for an object with type and cause, its type, the rendering
\* of its cause and no stack; for anything else, UnknownError, the rendering
\* of the value and no stack; the error-type header is the envelope's type.
C15_ErrorEnvelope ==
    (wire.op = "invocationError" /\ cur.how \in {"rejected", "syncThrow"}) =>
        LET thrown == cur.v
            envelope == wire.body
        IN /\ wire.url = ErrorUrl(cur.requestId)
           /\ envelope.errorType = Str(wire.errorTypeHeader)
           /\ thrown.t = "error" =>
                /\ envelope.errorType = Str(thrown.name)
                /\ envelope.errorMessage = thrown.message[1] \o thrown.message[2]
                /\ envelope.stackTrace.has
                /\ Len(envelope.stackTrace.text) >= 1
                /\ \A k \in DOMAIN envelope.stackTrace.text :
                      /\ envelope.stackTrace.text[k] # "\n"
                      /\ envelope.stackTrace.text[k] = thrown.stack.text[2 * k - 1]
           /\ thrown.t = "structured" =>
                /\ envelope.errorType = thrown.type
                /\ envelope.errorMessage = Inspect(thrown.cause)
                /\ ~envelope.stackTrace.has
           /\ thrown.t \notin {"error", "structured"} =>
                /\ envelope.errorType = Str("UnknownError")
                /\ envelope.errorMessage = Inspect(thrown)
                /\ ~envelope.stackTrace.has
           /\ thrown = Str("oops") => envelope.errorMessage = "\"oops\""

C15_Witness ==
    /\ wire.op = "invocationError"
    /\ wire.status = "ok"
    /\ cur.how = "rejected"
    /\ cur.v.t = "error"
    /\ wire.errorTypeHeader = "Error"
    /\ wire.body.errorMessage = "boom"
    /\ wire.body.stackTrace.text = <<"Error: boom", "    at handler (/var/task/main.ts:3:9)">>

C17_LoserAbandoned ==
    /\ [][(/\ pc' # "exited"
           /\ \/ bg' # bg /\ bg' \subseteq bg
              \/ \E timer \in timers \ timers' : ~(pc = "race" /\ timer.n = cur.n)) =>
            UNCHANGED <<pc, exitReason, processEnv, lambda, nInv, cur, wire, reports,
                        initErrors, handlerCalls>>]_vars
    /\ [](exitReason = "uncaught" =>
            /\ cur.n >= 1
            /\ cur.how \in {"fulfilled", "rejected", "syncThrow"}
            /\ cur.how = "fulfilled" => cur.v = BigInt
            /\ cur.how # "fulfilled" => cur.v.t = "structured" /\ cur.v.type = BigInt)
    /\ [](\A n \in 1..MaxInv : Reported(n) <= 1)
    /\ [](pc = "timeoutErrWait" =>
            /\ now >= cur.fireAt
            /\ cur.fireAt = cur.armedAt + cur.durationMs
            /\ wire.url = ErrorUrl(cur.requestId))

C17_Witness ==
    /\ pc = "nextWait"
    /\ nInv = 2
    /\ cur.n = 1
    /\ cur.how = "timeout"
    /\ bg = {}
    /\ reports[1] = [response |-> 0, error |-> 1, ok |-> 1]

\* C18: while the handler called for an invocation is running, abandoned by
\* a timed-out race or not, the trace slot never holds the trace id of
\* another invocation.
C18_NoForeignTraceWhileRunning ==
    \A n \in bg \cup (IF pc = "race" THEN {cur.n} ELSE {}) :
        \A m \in 1..MaxInv : m # n => TraceSlot # Present(TraceIdOf(m))

\* C19: while the invocation-error call of a handler that threw, or of a
\* timeout, is in flight, the trace slot holds the trace id of the
\* invocation; it is cleared when the call has returned, before the next poll.
C19_ErrorReportedBeforeTraceCleared ==
    /\ (pc \in {"catchErrWait", "timeoutErrWait"} /\ wire.status = "pending") =>
          TraceSlot = Present(cur.traceId)
    /\ (cur.n >= 1 /\ pc \in {"loop", "nextWait"}) => TraceSlot = Absent

====
